---- MODULE Spec2Model ----
(***************************************************************************)
(* Antenna motor-control subsystem of the radio-telescope control panel:   *)
(* AntennaController (state machine, monitoring thread), the simulated and *)
(* the Modbus motor driver, as implemented in                              *)
(* antena/sterowniki/antenna_controller.py.                                *)
(*                                                                         *)
(* Threads: the caller threads (the web facade serves requests on several  *)
(* threads), the monitoring threads started by initialize(), the motion    *)
(* threads started by SimulatedMotorDriver.move_to_position.  One step of  *)
(* a thread is one access to shared data; a call's return is a step of its *)
(* own, after its last access.                                             *)
(*                                                                         *)
(* Angles are integers in units of 1/DegScale degree, so that the          *)
(* conversions between degrees and steps are exact rational arithmetic.    *)
(***************************************************************************)
EXTENDS Integers, Sequences, FiniteSets, TLC

\* ------------------------------------------------------------------ bounds
\* calls the caller thread may make when it is the only one
MaxCalls == 3
\* with a second thread that calls stop(): the first thread's calls of
\* initialize() and of move_to(), the second thread's calls of stop()
MaxInits == 1
MaxMoves == 2
MaxStops == 1

Callers == {"A", "B"}

\* ------------------------------------------------------- program constants
\* model unit: one degree is DegScale units of angle
DegScale == 64 * 1000

\* MotorConfig defaults
steps_per_revolution == 200
microsteps == 16
gear_ratio_azimuth == 100
gear_ratio_elevation == 80

\* SimulatedMotorDriver(simulation_speed), steps per second
simulation_speed == 1000

\* time_step = 0.1 s, as the fraction 1/TimeStepDen
TimeStepDen == 10

\* Position.__post_init__ envelope, degrees
PositionMaxAzimuth == 360
PositionMaxElevation == 90

Abs(x) == IF x < 0 THEN -x ELSE x
Min(a, b) == IF a < b THEN a ELSE b

RECURSIVE GCD(_, _)
GCD(a, b) == IF b = 0 THEN a ELSE GCD(b, a % b)

\* steps per degree as a fraction num/den
StepsPerDegreeNum(gear) == steps_per_revolution * microsteps * gear
StepsPerDegreeDen == 360

\* the angles of the model, in units of 1/DegScale degree, whose product with
\* steps_per_degree falls, in binary64 arithmetic, just below the whole number
\* of steps they stand for: 0.070875 * 888.8888888888889 = 62.99999999999999
\* and 0.00140625 * 711.1111111111111 = 0.9999999999999999
ProductBelowWhole(gear) == IF gear = gear_ratio_azimuth THEN {4536} ELSE {90}

\* a conversion that uses the azimuth gear for both axes
DegreesToStepsAzimuthGear(deg, gear) ==
    deg \div ((StepsPerDegreeDen * DegScale) \div StepsPerDegreeNum(gear_ratio_azimuth))

\* int(degrees * steps_per_degree): truncation; the angle is deg/DegScale degrees
DegreesToSteps(deg, gear) ==
    LET num == StepsPerDegreeNum(gear)
        den == StepsPerDegreeDen * DegScale
        g == GCD(num, den)
        product == (deg * (num \div g)) \div (den \div g)
    IN IF deg \in ProductBelowWhole(gear) THEN product - 1 ELSE product

\* steps / steps_per_degree, in units of 1/DegScale degree
StepsToDegrees(steps, gear) ==
    LET num == StepsPerDegreeDen * DegScale
        den == StepsPerDegreeNum(gear)
        g == GCD(num, den)
    IN (steps * (num \div g)) \div (den \div g)

\* ------------------------------------------------------------- data types
States == {"idle", "moving", "error", "stopped", "calibrating"}

Pos(az, el) == [azimuth |-> az, elevation |-> el]

\* target_position = None
NoPosition == Pos(-1, -1)

\* a validation that forgets the elevation
PositionValidAzimuthOnly(az, el) == 0 <= az /\ az <= PositionMaxAzimuth * DegScale

\* Position.__post_init__: the constructor raises ValueError outside the envelope
PositionValid(az, el) ==
    /\ 0 <= az /\ az <= PositionMaxAzimuth * DegScale
    /\ 0 <= el /\ el <= PositionMaxElevation * DegScale

HomePosition == Pos(0, 0)

\* AntennaLimits() defaults and a tighter envelope that excludes the home position
DefaultLimits ==
    [min_azimuth |-> 0, max_azimuth |-> 360 * DegScale,
     min_elevation |-> 0, max_elevation |-> 90 * DegScale]

TightLimits ==
    [min_azimuth |-> 3600, max_azimuth |-> 14400,
     min_elevation |-> 0, max_elevation |-> 7200]

LimitsChoices == {DefaultLimits, TightLimits}

\* targets the callers ask for: 150.75 / 50 steps, and 100 / 100 steps
\* (the second is outside TightLimits in elevation only)
TargetA == Pos(10854, 4500)
TargetB == Pos(7200, 9000)
Targets == {TargetA, TargetB}

\* what the Modbus device may answer to get_position, in steps
ModbusPositions == {<<0, 0>>, <<150, 50>>, <<150, 65535>>}

DriverKinds == {"sim", "modbus"}

VARIABLES
    \* AntennaController
    state, target_position, current_position, stop_monitoring,
    monitoring_thread, limits,
    \* MotorDriver
    driverKind, connected,
    \* SimulatedMotorDriver
    current_azimuth, current_elevation, target_azimuth, target_elevation,
    moving, stop_event, move_thread,
    \* threads
    caller, budget, menu, monitor, motion,
    \* a single application of a function of the module: the values it is
    \* applied to, and what it returned or raised
    input, output

ctrlVars == <<state, target_position, current_position, stop_monitoring,
              monitoring_thread, limits>>
simVars == <<current_azimuth, current_elevation, target_azimuth,
             target_elevation, moving, stop_event, move_thread>>
drvVars == <<driverKind, connected, simVars>>
\* what the callers may do: the calls left (budget), and how often each call
\* may still be made (menu)
probeVars == <<input, output>>
envVars == <<budget, menu, probeVars>>
vars == <<ctrlVars, drvVars, caller, envVars, monitor, motion>>

\* a call: the operation and the Position passed to move_to
CallOf(o, p) == [op |-> o, arg |-> p]

CallsWith(targets) ==
    {CallOf(o, NoPosition) :
        o \in {"initialize", "shutdown", "stop", "calibrate", "get_status"}}
    \cup {CallOf("move_to", p) : p \in targets}

\* a caller thread: where it is (pc) in which operation (op, arg), the state
\* of the controller when it called (entry), the driver methods the call has
\* entered (calls), the thread it joins (jt), the method the simulator's
\* stop() returns into (after), and what the operation returns (outcome)
IdleCaller ==
    [pc |-> "idle", op |-> "none", arg |-> NoPosition, entry |-> "none",
     outcome |-> "none", calls |-> <<>>, jt |-> 0, after |-> "none"]

Thread(p) == [pc |-> p, az |-> 0, el |-> 0]

\* AntennaController.__init__, SimulatedMotorDriver.__init__ / ModbusMotorDriver.__init__
Constructed ==
    /\ state = "idle"
    /\ current_position = HomePosition
    /\ target_position = NoPosition
    /\ stop_monitoring = FALSE
    /\ monitoring_thread = 0
    /\ limits \in LimitsChoices
    /\ driverKind \in DriverKinds
    /\ connected = FALSE
    /\ current_azimuth = 0
    /\ current_elevation = 0
    /\ target_azimuth = 0
    /\ target_elevation = 0
    /\ moving = FALSE
    /\ stop_event = FALSE
    /\ move_thread = 0
    /\ caller = [c \in Callers |-> IdleCaller]
    /\ monitor = <<>>
    /\ motion = <<>>

\* no function is applied on its own
NoInput == [rx |-> <<>>]
NoOutput == [op |-> "none"]

\* one caller thread
Init ==
    /\ Constructed
    /\ input = NoInput
    /\ output = NoOutput
    /\ budget = [c \in Callers |-> IF c = "A" THEN MaxCalls ELSE 0]
    /\ menu = [c \in Callers |->
                IF c = "A" THEN [call \in CallsWith(Targets) |-> MaxCalls] ELSE <<>>]

\* a caller thread and a second thread that calls stop()
InitStopper ==
    /\ Constructed
    /\ input = NoInput
    /\ output = NoOutput
    /\ budget = [c \in Callers |-> IF c = "A" THEN MaxInits + MaxMoves ELSE MaxStops]
    /\ menu = [c \in Callers |->
                IF c = "A"
                THEN [call \in {CallOf("initialize", NoPosition), CallOf("move_to", TargetA)} |->
                        IF call.op = "initialize" THEN MaxInits ELSE MaxMoves]
                ELSE [call \in {CallOf("stop", NoPosition)} |-> MaxStops]]

\* ---------------------------------------------------------------- helpers
Goto(c, p) == [caller EXCEPT ![c].pc = p]

\* the driver method is entered: the spy's record of the call
Called(c, p, name) ==
    [caller EXCEPT ![c].pc = p, ![c].calls = Append(@, name)]

Raise(c, exc) == [caller EXCEPT ![c].pc = "ret", ![c].outcome = exc]

\* t and t.is_alive(): a thread is alive from start() until it ends
ThreadAlive(threads, t) == t # 0 /\ threads[t].pc \notin {"new", "dead"}

\* a caller starts an operation of the controller
Call(c) ==
    /\ caller[c].pc = "idle"
    /\ budget[c] > 0
    /\ budget' = [budget EXCEPT ![c] = @ - 1]
    /\ \E call \in DOMAIN menu[c] :
         /\ menu[c][call] > 0
         /\ menu' = [menu EXCEPT ![c] =
                [k \in DOMAIN @ |-> Min(budget[c] - 1, IF k = call THEN @[k] - 1 ELSE @[k])]]
         /\ caller' = [caller EXCEPT ![c] =
                [IdleCaller EXCEPT
                    !.op = call.op, !.arg = call.arg, !.entry = state,
                    !.pc = CASE call.op = "initialize" -> "in_connect"
                             [] call.op = "shutdown" -> "st_drv"
                             [] call.op = "move_to" -> "mv_check"
                             [] call.op = "stop" -> "st_drv"
                             [] call.op = "calibrate" -> "ca_state"
                             [] OTHER -> "gs_read"]]
    /\ UNCHANGED <<ctrlVars, drvVars, probeVars, monitor, motion>>

\* the operation returns to (or raises into) the caller
Return(c) ==
    /\ caller[c].pc = "ret"
    /\ caller' = [caller EXCEPT ![c] = IdleCaller]
    /\ UNCHANGED <<ctrlVars, drvVars, envVars, monitor, motion>>

\* -------------------------------------------------- AntennaController.move_to
\* a validation that forgets the elevation
ValidateAzimuthOnly(position) ==
    /\ limits.min_azimuth <= position.azimuth
    /\ position.azimuth <= limits.max_azimuth

\* _validate_position
ValidatePosition(position) ==
    /\ limits.min_azimuth <= position.azimuth
    /\ position.azimuth <= limits.max_azimuth
    /\ limits.min_elevation <= position.elevation
    /\ position.elevation <= limits.max_elevation

\* a move_to that forgets the test of the Error state
MoveToCheckNoErrorTest(c) ==
    /\ caller[c].pc = "mv_check"
    /\ caller' = IF ~ValidatePosition(caller[c].arg) THEN Raise(c, "SafetyError")
                 ELSE Goto(c, "mv_target")
    /\ UNCHANGED <<ctrlVars, drvVars, envVars, monitor, motion>>

\* if self.state == ERROR: raise AntennaError; self._validate_position(position)
MoveToCheck(c) ==
    /\ caller[c].pc = "mv_check"
    /\ caller' = IF state = "error" THEN Raise(c, "AntennaError")
                 ELSE IF ~ValidatePosition(caller[c].arg) THEN Raise(c, "SafetyError")
                 ELSE Goto(c, "mv_target")
    /\ UNCHANGED <<ctrlVars, drvVars, envVars, monitor, motion>>

\* self.target_position = position
MoveToSetTarget(c) ==
    /\ caller[c].pc = "mv_target"
    /\ target_position' = caller[c].arg
    /\ caller' = Goto(c, "mv_state")
    /\ UNCHANGED <<state, current_position, stop_monitoring, monitoring_thread,
                   limits, drvVars, envVars, monitor, motion>>

\* self.state = MOVING
MoveToSetState(c) ==
    /\ caller[c].pc = "mv_state"
    /\ state' = "moving"
    /\ caller' = Goto(c, "mv_drv")
    /\ UNCHANGED <<target_position, current_position, stop_monitoring,
                   monitoring_thread, limits, drvVars, envVars, monitor, motion>>

\* struct.pack(fmt, *items) raises struct.error unless fmt has one field per item
StructPackOk(nFields, nItems) == nFields = nItems

\* what follows a move_to that did not raise: it returns, or calibrate() goes on
AfterMoveTo(c) ==
    IF caller[c].op = "calibrate" THEN Goto(c, "ca_wait")
    ELSE [caller EXCEPT ![c].pc = "ret", ![c].outcome = "ok"]

\* self.motor_driver.move_to_position(az_steps, el_steps), entered.
\* Simulator: raises CommunicationError when not connected.
\* Modbus: struct.pack('>HHHH', 0x1000, 2, 4, az, el) is given 5 items for 4
\* fields and raises before any exchange; else _send_command (one exchange).
MoveToDriver(c) ==
    /\ caller[c].pc = "mv_drv"
    /\ IF driverKind = "sim"
       THEN caller' = Called(c, IF connected THEN "dm_taz" ELSE "mv_err", "move_to_position")
       ELSE IF ~StructPackOk(4, 5) \/ ~connected
            THEN caller' = Called(c, "mv_err", "move_to_position")
            ELSE \E ok \in BOOLEAN :
                    caller' = IF ok
                              THEN [AfterMoveTo(c) EXCEPT ![c].calls =
                                        Append(@, "move_to_position")]
                              ELSE Called(c, "mv_err", "move_to_position")
    /\ UNCHANGED <<ctrlVars, drvVars, envVars, monitor, motion>>

\* except Exception: self.state = ERROR; raise PositionError
MoveToError(c) ==
    /\ caller[c].pc = "mv_err"
    /\ state' = "error"
    /\ caller' = Raise(c, "PositionError")
    /\ UNCHANGED <<target_position, current_position, stop_monitoring,
                   monitoring_thread, limits, drvVars, envVars, monitor, motion>>

\* --------------------------------- SimulatedMotorDriver.move_to_position
\* self.target_azimuth = azimuth_steps
SimMoveTargetAz(c) ==
    /\ caller[c].pc = "dm_taz"
    /\ target_azimuth' = DegreesToSteps(caller[c].arg.azimuth, gear_ratio_azimuth)
    /\ caller' = Goto(c, "dm_tel")
    /\ UNCHANGED <<ctrlVars, driverKind, connected, current_azimuth, current_elevation,
                   target_elevation, moving, stop_event, move_thread,
                   envVars, monitor, motion>>

\* self.target_elevation = elevation_steps
SimMoveTargetEl(c) ==
    /\ caller[c].pc = "dm_tel"
    /\ target_elevation' = DegreesToSteps(caller[c].arg.elevation, gear_ratio_elevation)
    /\ caller' = Goto(c, "dm_chk")
    /\ UNCHANGED <<ctrlVars, driverKind, connected, current_azimuth, current_elevation,
                   target_azimuth, moving, stop_event, move_thread,
                   envVars, monitor, motion>>

\* a move_to_position that does not look for the previous thread
SimMoveCheckThreadSkipped(c) ==
    /\ caller[c].pc = "dm_chk"
    /\ caller' = Goto(c, "dm_clear")
    /\ UNCHANGED <<ctrlVars, drvVars, envVars, monitor, motion>>

\* if self._move_thread and self._move_thread.is_alive():
SimMoveCheckThread(c) ==
    /\ caller[c].pc = "dm_chk"
    /\ caller' = Goto(c, IF ThreadAlive(motion, move_thread) THEN "dm_set" ELSE "dm_clear")
    /\ UNCHANGED <<ctrlVars, drvVars, envVars, monitor, motion>>

\* self._stop_event.set()
SimMoveSetEvent(c) ==
    /\ caller[c].pc = "dm_set"
    /\ stop_event' = TRUE
    /\ caller' = Goto(c, "dm_join")
    /\ UNCHANGED <<ctrlVars, driverKind, connected, current_azimuth, current_elevation,
                   target_azimuth, target_elevation, moving, move_thread,
                   envVars, monitor, motion>>

\* self._move_thread.join(), entered: the attribute is read again; joining a
\* thread that was not started yet raises RuntimeError
SimMoveJoin(c) ==
    /\ caller[c].pc = "dm_join"
    /\ caller' = IF motion[move_thread].pc = "new"
                 THEN Goto(c, "mv_err")
                 ELSE [caller EXCEPT ![c].pc = "dm_wait", ![c].jt = move_thread]
    /\ UNCHANGED <<ctrlVars, drvVars, envVars, monitor, motion>>

\* join() returns when the thread has ended
SimMoveJoined(c) ==
    /\ caller[c].pc = "dm_wait"
    /\ motion[caller[c].jt].pc = "dead"
    /\ caller' = [caller EXCEPT ![c].pc = "dm_clear", ![c].jt = 0]
    /\ UNCHANGED <<ctrlVars, drvVars, envVars, monitor, motion>>

\* self._stop_event.clear()
SimMoveClearEvent(c) ==
    /\ caller[c].pc = "dm_clear"
    /\ stop_event' = FALSE
    /\ caller' = Goto(c, "dm_new")
    /\ UNCHANGED <<ctrlVars, driverKind, connected, current_azimuth, current_elevation,
                   target_azimuth, target_elevation, moving, move_thread,
                   envVars, monitor, motion>>

\* self._move_thread = threading.Thread(target=self._simulate_movement)
SimMoveNewThread(c) ==
    /\ caller[c].pc = "dm_new"
    /\ motion' = Append(motion, Thread("new"))
    /\ move_thread' = Len(motion) + 1
    /\ caller' = Goto(c, "dm_start")
    /\ UNCHANGED <<ctrlVars, driverKind, connected, current_azimuth, current_elevation,
                   target_azimuth, target_elevation, moving, stop_event,
                   envVars, monitor>>

\* self._move_thread.start(): the attribute is read again; starting a thread
\* twice raises RuntimeError. Then move_to_position and move_to return.
SimMoveStartThread(c) ==
    /\ caller[c].pc = "dm_start"
    /\ IF motion[move_thread].pc = "new"
       THEN /\ motion' = [motion EXCEPT ![move_thread].pc = "mt_flag"]
            /\ caller' = AfterMoveTo(c)
       ELSE /\ motion' = motion
            /\ caller' = Goto(c, "mv_err")
    /\ UNCHANGED <<ctrlVars, drvVars, envVars, monitor>>

\* --------------------------------- SimulatedMotorDriver._simulate_movement
\* self.simulation_speed = simulation_speed: the argument of the constructor,
\* 1000.0 unless the driver was constructed with another speed
SimulationSpeed ==
    IF "simulation_speed" \in DOMAIN input THEN input.simulation_speed
    ELSE simulation_speed

\* max_step = int(self.simulation_speed * time_step)
MaxStep == SimulationSpeed \div TimeStepDen

\* min(max_step, abs(diff)) * (1 if diff > 0 else -1)
TickStep(diff) == Min(MaxStep, Abs(diff)) * (IF diff > 0 THEN 1 ELSE -1)

\* self.moving = True
MotionFlag(t) ==
    /\ motion[t].pc = "mt_flag"
    /\ moving' = TRUE
    /\ motion' = [motion EXCEPT ![t].pc = "mt_loop"]
    /\ UNCHANGED <<ctrlVars, driverKind, connected, current_azimuth, current_elevation,
                   target_azimuth, target_elevation, stop_event, move_thread,
                   caller, envVars, monitor>>

\* while not self._stop_event.is_set(): the differences, the break, the steps
MotionLoop(t) ==
    /\ motion[t].pc = "mt_loop"
    /\ LET az_diff == target_azimuth - current_azimuth
           el_diff == target_elevation - current_elevation
       IN motion' = IF stop_event \/ (Abs(az_diff) < 1 /\ Abs(el_diff) < 1)
                    THEN [motion EXCEPT ![t].pc = "mt_end"]
                    ELSE [motion EXCEPT ![t] = [pc |-> "mt_az", az |-> TickStep(az_diff),
                                                el |-> TickStep(el_diff)]]
    /\ UNCHANGED <<ctrlVars, drvVars, caller, envVars, monitor>>

\* self.current_azimuth += az_step
MotionAzimuth(t) ==
    /\ motion[t].pc = "mt_az"
    /\ current_azimuth' = current_azimuth + motion[t].az
    /\ motion' = [motion EXCEPT ![t].pc = "mt_el", ![t].az = 0]
    /\ UNCHANGED <<ctrlVars, driverKind, connected, current_elevation,
                   target_azimuth, target_elevation, moving, stop_event, move_thread,
                   caller, envVars, monitor>>

\* self.current_elevation += el_step; time.sleep(time_step)
MotionElevation(t) ==
    /\ motion[t].pc = "mt_el"
    /\ current_elevation' = current_elevation + motion[t].el
    /\ motion' = [motion EXCEPT ![t].pc = "mt_loop", ![t].el = 0]
    /\ UNCHANGED <<ctrlVars, driverKind, connected, current_azimuth,
                   target_azimuth, target_elevation, moving, stop_event, move_thread,
                   caller, envVars, monitor>>

\* self.moving = False; the thread ends
MotionEnd(t) ==
    /\ motion[t].pc = "mt_end"
    /\ moving' = FALSE
    /\ motion' = [motion EXCEPT ![t].pc = "dead"]
    /\ UNCHANGED <<ctrlVars, driverKind, connected, current_azimuth, current_elevation,
                   target_azimuth, target_elevation, stop_event, move_thread,
                   caller, envVars, monitor>>

\* ---------------------------------------------------- AntennaController.stop
\* self.motor_driver.stop(), entered.
\* Modbus: _send_command(0x06, ...) raises CommunicationError when not
\* connected, and else writes the frame to the port.
StopDriver(c) ==
    /\ caller[c].pc = "st_drv"
    /\ IF driverKind = "sim"
       THEN caller' = [Called(c, "ds_set", "stop") EXCEPT ![c].after = "stop"]
       ELSE caller' = Called(c, IF ~StructPackOk(2, 2) \/ ~connected
                                THEN "st_err" ELSE "st_rd", "stop")
    /\ UNCHANGED <<ctrlVars, drvVars, envVars, monitor, motion>>

\* Modbus: the response is read after the pause; it is accepted, or
\* CommunicationError is raised (short response, CRC)
StopDriverRead(c) ==
    /\ caller[c].pc = "st_rd"
    /\ \E ok \in BOOLEAN : caller' = Goto(c, IF ok THEN "st_state" ELSE "st_err")
    /\ UNCHANGED <<ctrlVars, drvVars, envVars, monitor, motion>>

\* self.state = STOPPED
StopSetState(c) ==
    /\ caller[c].pc = "st_state"
    /\ state' = "stopped"
    /\ caller' = Goto(c, "st_target")
    /\ UNCHANGED <<target_position, current_position, stop_monitoring,
                   monitoring_thread, limits, drvVars, envVars, monitor, motion>>

\* self.target_position = None; stop() returns (into shutdown(), when it called)
StopClearTarget(c) ==
    /\ caller[c].pc = "st_target"
    /\ target_position' = NoPosition
    /\ caller' = IF caller[c].op = "shutdown" THEN Goto(c, "sh_set")
                 ELSE [caller EXCEPT ![c].pc = "ret", ![c].outcome = "ok"]
    /\ UNCHANGED <<state, current_position, stop_monitoring, monitoring_thread,
                   limits, drvVars, envVars, monitor, motion>>

\* except Exception: self.state = ERROR; raise AntennaError
StopError(c) ==
    /\ caller[c].pc = "st_err"
    /\ state' = "error"
    /\ caller' = Raise(c, "AntennaError")
    /\ UNCHANGED <<target_position, current_position, stop_monitoring,
                   monitoring_thread, limits, drvVars, envVars, monitor, motion>>

\* ------------------------------------------------ SimulatedMotorDriver.stop
\* self._stop_event.set()
SimStopSetEvent(c) ==
    /\ caller[c].pc = "ds_set"
    /\ stop_event' = TRUE
    /\ caller' = Goto(c, "ds_chk")
    /\ UNCHANGED <<ctrlVars, driverKind, connected, current_azimuth, current_elevation,
                   target_azimuth, target_elevation, moving, move_thread,
                   envVars, monitor, motion>>

\* if self._move_thread and self._move_thread.is_alive():
SimStopCheckThread(c) ==
    /\ caller[c].pc = "ds_chk"
    /\ caller' = Goto(c, IF ThreadAlive(motion, move_thread) THEN "ds_join" ELSE "ds_clr")
    /\ UNCHANGED <<ctrlVars, drvVars, envVars, monitor, motion>>

\* self._move_thread.join(), entered: the attribute is read again; joining a
\* thread that was not started yet raises RuntimeError (out of disconnect()
\* and shutdown() uncaught, into stop()'s handler otherwise)
SimStopJoin(c) ==
    /\ caller[c].pc = "ds_join"
    /\ caller' = IF motion[move_thread].pc = "new"
                 THEN IF caller[c].after = "disconnect"
                      THEN Raise(c, "RuntimeError")
                      ELSE Goto(c, "st_err")
                 ELSE [caller EXCEPT ![c].pc = "ds_wait", ![c].jt = move_thread]
    /\ UNCHANGED <<ctrlVars, drvVars, envVars, monitor, motion>>

\* join() returns when the thread has ended
SimStopJoined(c) ==
    /\ caller[c].pc = "ds_wait"
    /\ motion[caller[c].jt].pc = "dead"
    /\ caller' = [caller EXCEPT ![c].pc = "ds_clr", ![c].jt = 0]
    /\ UNCHANGED <<ctrlVars, drvVars, envVars, monitor, motion>>

\* self.moving = False; the driver's stop() returns
SimStopClearMoving(c) ==
    /\ caller[c].pc = "ds_clr"
    /\ moving' = FALSE
    /\ caller' = Goto(c, IF caller[c].after = "disconnect" THEN "dc_flag" ELSE "st_state")
    /\ UNCHANGED <<ctrlVars, driverKind, connected, current_azimuth, current_elevation,
                   target_azimuth, target_elevation, stop_event, move_thread,
                   envVars, monitor, motion>>

\* ------------------------------------------------ AntennaController.shutdown
\* (self.stop() first: StopDriver .. StopClearTarget)
\* self._stop_monitoring.set()
ShutdownSignal(c) ==
    /\ caller[c].pc = "sh_set"
    /\ stop_monitoring' = TRUE
    /\ caller' = Goto(c, "sh_chk")
    /\ UNCHANGED <<state, target_position, current_position, monitoring_thread,
                   limits, drvVars, envVars, monitor, motion>>

\* if self._monitoring_thread and self._monitoring_thread.is_alive():
ShutdownCheckThread(c) ==
    /\ caller[c].pc = "sh_chk"
    /\ caller' = Goto(c, IF ThreadAlive(monitor, monitoring_thread)
                         THEN "sh_join" ELSE "dc_drv")
    /\ UNCHANGED <<ctrlVars, drvVars, envVars, monitor, motion>>

\* self._monitoring_thread.join(), entered: the attribute is read again
ShutdownJoin(c) ==
    /\ caller[c].pc = "sh_join"
    /\ caller' = IF monitor[monitoring_thread].pc = "new"
                 THEN Raise(c, "RuntimeError")
                 ELSE [caller EXCEPT ![c].pc = "sh_wait", ![c].jt = monitoring_thread]
    /\ UNCHANGED <<ctrlVars, drvVars, envVars, monitor, motion>>

\* join() returns when the monitoring thread has ended
ShutdownJoined(c) ==
    /\ caller[c].pc = "sh_wait"
    /\ monitor[caller[c].jt].pc = "dead"
    /\ caller' = [caller EXCEPT ![c].pc = "dc_drv", ![c].jt = 0]
    /\ UNCHANGED <<ctrlVars, drvVars, envVars, monitor, motion>>

\* self.motor_driver.disconnect(), entered.
\* Simulator: self.stop() first.  Modbus: close the port, connected = False.
ShutdownDisconnect(c) ==
    /\ caller[c].pc = "dc_drv"
    /\ IF driverKind = "sim"
       THEN /\ caller' = [Called(c, "ds_set", "disconnect") EXCEPT ![c].after = "disconnect"]
            /\ connected' = connected
       ELSE /\ caller' = [Called(c, "ret", "disconnect") EXCEPT ![c].outcome = "ok"]
            /\ connected' = FALSE
    /\ UNCHANGED <<ctrlVars, driverKind, simVars, envVars, monitor, motion>>

\* SimulatedMotorDriver.disconnect: self.connected = False
SimDisconnectFlag(c) ==
    /\ caller[c].pc = "dc_flag"
    /\ connected' = FALSE
    /\ caller' = [caller EXCEPT ![c].pc = "ret", ![c].outcome = "ok"]
    /\ UNCHANGED <<ctrlVars, driverKind, simVars, envVars, monitor, motion>>

\* ---------------------------------------------- AntennaController.initialize
\* self.motor_driver.connect(): the simulator always connects; opening the
\* serial port succeeds or raises CommunicationError
InitializeConnect(c) ==
    /\ caller[c].pc = "in_connect"
    /\ \E ok \in (IF driverKind = "sim" THEN {TRUE} ELSE BOOLEAN) :
         /\ connected' = (IF ok THEN TRUE ELSE connected)
         /\ caller' = Called(c, IF ok THEN "in_clear" ELSE "in_err", "connect")
    /\ UNCHANGED <<ctrlVars, driverKind, simVars, envVars, monitor, motion>>

\* _start_monitoring: self._stop_monitoring.clear()
InitializeClearEvent(c) ==
    /\ caller[c].pc = "in_clear"
    /\ stop_monitoring' = FALSE
    /\ caller' = Goto(c, "in_new")
    /\ UNCHANGED <<state, target_position, current_position, monitoring_thread,
                   limits, drvVars, envVars, monitor, motion>>

\* _start_monitoring: self._monitoring_thread = threading.Thread(...)
InitializeNewThread(c) ==
    /\ caller[c].pc = "in_new"
    /\ monitor' = Append(monitor, Thread("new"))
    /\ monitoring_thread' = Len(monitor) + 1
    /\ caller' = Goto(c, "in_start")
    /\ UNCHANGED <<state, target_position, current_position, stop_monitoring,
                   limits, drvVars, envVars, motion>>

\* _start_monitoring: self._monitoring_thread.start(): the attribute is read
\* again; a thread already started raises RuntimeError
InitializeStartThread(c) ==
    /\ caller[c].pc = "in_start"
    /\ IF monitor[monitoring_thread].pc = "new"
       THEN /\ monitor' = [monitor EXCEPT ![monitoring_thread].pc = "mo_loop"]
            /\ caller' = Goto(c, "in_idle")
       ELSE /\ monitor' = monitor
            /\ caller' = Goto(c, "in_err")
    /\ UNCHANGED <<ctrlVars, drvVars, envVars, motion>>

\* self.state = IDLE
InitializeSetIdle(c) ==
    /\ caller[c].pc = "in_idle"
    /\ state' = "idle"
    /\ caller' = [caller EXCEPT ![c].pc = "ret", ![c].outcome = "ok"]
    /\ UNCHANGED <<target_position, current_position, stop_monitoring,
                   monitoring_thread, limits, drvVars, envVars, monitor, motion>>

\* an initialize() that raises and leaves the state as it was
InitializeErrorKeepsState(c) ==
    /\ caller[c].pc = "in_err"
    /\ caller' = Raise(c, "AntennaError")
    /\ UNCHANGED <<ctrlVars, drvVars, envVars, monitor, motion>>

\* except Exception: self.state = ERROR; raise AntennaError
InitializeError(c) ==
    /\ caller[c].pc = "in_err"
    /\ state' = "error"
    /\ caller' = Raise(c, "AntennaError")
    /\ UNCHANGED <<target_position, current_position, stop_monitoring,
                   monitoring_thread, limits, drvVars, envVars, monitor, motion>>

\* ----------------------------------------------- AntennaController.calibrate
\* self.state = CALIBRATING; home_position = Position(0.0, 0.0); then
\* self.move_to(home_position): MoveToCheck ..
CalibrateSetState(c) ==
    /\ caller[c].pc = "ca_state"
    /\ state' = "calibrating"
    /\ caller' = [caller EXCEPT ![c].pc = "mv_check", ![c].arg = HomePosition]
    /\ UNCHANGED <<target_position, current_position, stop_monitoring,
                   monitoring_thread, limits, drvVars, envVars, monitor, motion>>

\* while self.state == MOVING: time.sleep(0.1) -- the loop is left
CalibrateWait(c) ==
    /\ caller[c].pc = "ca_wait"
    /\ state # "moving"
    /\ caller' = Goto(c, "ca_idle")
    /\ UNCHANGED <<ctrlVars, drvVars, envVars, monitor, motion>>

\* a calibrate() that also declares the antenna to be at home
CalibrateSetIdleAtHome(c) ==
    /\ caller[c].pc = "ca_idle"
    /\ state' = "idle"
    /\ current_position' = HomePosition
    /\ caller' = [caller EXCEPT ![c].pc = "ret", ![c].outcome = "ok"]
    /\ UNCHANGED <<target_position, stop_monitoring,
                   monitoring_thread, limits, drvVars, envVars, monitor, motion>>

\* self.state = IDLE
CalibrateSetIdle(c) ==
    /\ caller[c].pc = "ca_idle"
    /\ state' = "idle"
    /\ caller' = [caller EXCEPT ![c].pc = "ret", ![c].outcome = "ok"]
    /\ UNCHANGED <<target_position, current_position, stop_monitoring,
                   monitoring_thread, limits, drvVars, envVars, monitor, motion>>

\* ---------------------------------------------- AntennaController.get_status
\* the reads of state and current_position, and the test of
\* "... if self.target_position else None"
GetStatusRead(c) ==
    /\ caller[c].pc = "gs_read"
    /\ caller' = Goto(c, IF target_position # NoPosition THEN "gs_target" ELSE "gs_moving")
    /\ UNCHANGED <<ctrlVars, drvVars, envVars, monitor, motion>>

\* self.target_position.azimuth: the attribute is read again, and None has no
\* azimuth (AttributeError)
GetStatusTarget(c) ==
    /\ caller[c].pc = "gs_target"
    /\ caller' = IF target_position = NoPosition THEN Raise(c, "AttributeError")
                 ELSE Goto(c, "gs_moving")
    /\ UNCHANGED <<ctrlVars, drvVars, envVars, monitor, motion>>

\* self.motor_driver.is_moving(): the simulator's flag.  Modbus:
\* _send_command(0x01, ...) raises CommunicationError when not connected, and
\* else writes the frame to the port.
GetStatusIsMoving(c) ==
    /\ caller[c].pc = "gs_moving"
    /\ caller' = IF driverKind = "sim"
                 THEN [Called(c, "ret", "is_moving") EXCEPT ![c].outcome = "ok"]
                 ELSE IF connected THEN Called(c, "gs_rd", "is_moving")
                 ELSE [Called(c, "ret", "is_moving") EXCEPT
                            ![c].outcome = "CommunicationError"]
    /\ UNCHANGED <<ctrlVars, drvVars, envVars, monitor, motion>>

\* Modbus: the response is read after the pause; it is accepted, or
\* CommunicationError is raised
GetStatusIsMovingRead(c) ==
    /\ caller[c].pc = "gs_rd"
    /\ \E ok \in BOOLEAN :
         caller' = [caller EXCEPT ![c].pc = "ret",
                        ![c].outcome = IF ok THEN "ok" ELSE "CommunicationError"]
    /\ UNCHANGED <<ctrlVars, drvVars, envVars, monitor, motion>>

\* ------------------------------------------ AntennaController._monitor_position
\* while not self._stop_monitoring.is_set():
MonitorLoop(m) ==
    /\ monitor[m].pc = "mo_loop"
    /\ monitor' = [monitor EXCEPT ![m].pc = IF stop_monitoring THEN "dead" ELSE "mo_get"]
    /\ UNCHANGED <<ctrlVars, drvVars, caller, envVars, motion>>

\* what self.motor_driver.get_position() may return, in steps: the
\* simulator's counters, or the registers of a Modbus response
GetPositionResults ==
    IF driverKind = "sim" THEN {<<current_azimuth, current_elevation>>}
    ELSE ModbusPositions

\* a conversion that builds the Position without its validation
MonitorPositionUnchecked(r) ==
    [pc |-> "mo_set",
     az |-> StepsToDegrees(r[1], gear_ratio_azimuth),
     el |-> StepsToDegrees(r[2], gear_ratio_elevation)]

\* azimuth = az_steps / steps_per_degree_azimuth, ...; Position(azimuth,
\* elevation), which raises ValueError outside the envelope (the thread then
\* holds the angles it computed)
MonitorPosition(r) ==
    LET azimuth == StepsToDegrees(r[1], gear_ratio_azimuth)
        elevation == StepsToDegrees(r[2], gear_ratio_elevation)
    IN [pc |-> IF PositionValid(azimuth, elevation) THEN "mo_set" ELSE "mo_err",
        az |-> azimuth, el |-> elevation]

\* az_steps, el_steps = get_position().  Modbus: _send_command(0x03, ...)
\* raises CommunicationError when not connected, and else writes the frame.
MonitorGetPosition(m) ==
    /\ monitor[m].pc = "mo_get"
    /\ IF driverKind = "sim"
       THEN \E r \in GetPositionResults :
                monitor' = [monitor EXCEPT ![m] = MonitorPosition(r)]
       ELSE monitor' = [monitor EXCEPT ![m].pc =
                            IF connected THEN "mo_get_rd" ELSE "mo_err"]
    /\ UNCHANGED <<ctrlVars, drvVars, caller, envVars, motion>>

\* Modbus: the response is read after the pause; it carries the registers, or
\* CommunicationError is raised (short response, CRC)
MonitorGetPositionRead(m) ==
    /\ monitor[m].pc = "mo_get_rd"
    /\ \/ \E r \in GetPositionResults :
            monitor' = [monitor EXCEPT ![m] = MonitorPosition(r)]
       \/ monitor' = [monitor EXCEPT ![m].pc = "mo_err"]
    /\ UNCHANGED <<ctrlVars, drvVars, caller, envVars, motion>>

\* self.current_position = Position(azimuth, elevation)
MonitorSetPosition(m) ==
    /\ monitor[m].pc = "mo_set"
    /\ current_position' = Pos(monitor[m].az, monitor[m].el)
    /\ monitor' = [monitor EXCEPT ![m] = Thread("mo_state")]
    /\ UNCHANGED <<state, target_position, stop_monitoring, monitoring_thread,
                   limits, drvVars, caller, envVars, motion>>

\* if self.state == MOVING and ...: the read of state; else time.sleep(0.5)
MonitorReadState(m) ==
    /\ monitor[m].pc = "mo_state"
    /\ monitor' = [monitor EXCEPT ![m].pc = IF state = "moving" THEN "mo_moving" ELSE "mo_loop"]
    /\ UNCHANGED <<ctrlVars, drvVars, caller, envVars, motion>>

\* what self.motor_driver.is_moving() may return: the simulator's flag, or
\* bit 0 of the status in a Modbus response
IsMovingResults ==
    IF driverKind = "sim" THEN {moving} ELSE BOOLEAN

\* ... and not self.motor_driver.is_moving().  Modbus: _send_command(0x01,
\* ...) raises CommunicationError when not connected, and else writes the
\* frame.
MonitorIsMoving(m) ==
    /\ monitor[m].pc = "mo_moving"
    /\ IF driverKind = "sim"
       THEN \E r \in IsMovingResults :
                monitor' = [monitor EXCEPT ![m].pc = IF r THEN "mo_loop" ELSE "mo_idle"]
       ELSE monitor' = [monitor EXCEPT ![m].pc =
                            IF connected THEN "mo_moving_rd" ELSE "mo_err"]
    /\ UNCHANGED <<ctrlVars, drvVars, caller, envVars, motion>>

\* Modbus: the response is read after the pause; it carries the status, or
\* CommunicationError is raised
MonitorIsMovingRead(m) ==
    /\ monitor[m].pc = "mo_moving_rd"
    /\ \/ \E r \in IsMovingResults :
            monitor' = [monitor EXCEPT ![m].pc = IF r THEN "mo_loop" ELSE "mo_idle"]
       \/ monitor' = [monitor EXCEPT ![m].pc = "mo_err"]
    /\ UNCHANGED <<ctrlVars, drvVars, caller, envVars, motion>>

\* a monitoring loop that sees the motion end and does not write the state
MonitorSetIdleForgotten(m) ==
    /\ monitor[m].pc = "mo_idle"
    /\ monitor' = [monitor EXCEPT ![m].pc = "mo_loop"]
    /\ UNCHANGED <<ctrlVars, drvVars, caller, envVars, motion>>

\* self.state = IDLE; time.sleep(0.5)
MonitorSetIdle(m) ==
    /\ monitor[m].pc = "mo_idle"
    /\ state' = "idle"
    /\ monitor' = [monitor EXCEPT ![m].pc = "mo_loop"]
    /\ UNCHANGED <<target_position, current_position, stop_monitoring,
                   monitoring_thread, limits, drvVars, caller, envVars, motion>>

\* a monitoring loop that writes ERROR and ends
MonitorErrorEnds(m) ==
    /\ monitor[m].pc = "mo_err"
    /\ state' = "error"
    /\ monitor' = [monitor EXCEPT ![m] = Thread("dead")]
    /\ UNCHANGED <<target_position, current_position, stop_monitoring,
                   monitoring_thread, limits, drvVars, caller, envVars, motion>>

\* except Exception: self.state = ERROR; time.sleep(0.5)
MonitorError(m) ==
    /\ monitor[m].pc = "mo_err"
    /\ state' = "error"
    /\ monitor' = [monitor EXCEPT ![m] = Thread("mo_loop")]
    /\ UNCHANGED <<target_position, current_position, stop_monitoring,
                   monitoring_thread, limits, drvVars, caller, envVars, motion>>

\* ------------------------------------------------------------ specification
MoveToStep(c) ==
    \/ MoveToCheck(c) \/ MoveToSetTarget(c) \/ MoveToSetState(c)
    \/ MoveToDriver(c) \/ MoveToError(c)
    \/ SimMoveTargetAz(c) \/ SimMoveTargetEl(c) \/ SimMoveCheckThread(c)
    \/ SimMoveSetEvent(c) \/ SimMoveJoin(c) \/ SimMoveJoined(c)
    \/ SimMoveClearEvent(c) \/ SimMoveNewThread(c) \/ SimMoveStartThread(c)

StopStep(c) ==
    \/ StopDriver(c) \/ StopDriverRead(c) \/ StopSetState(c)
    \/ StopClearTarget(c) \/ StopError(c)
    \/ SimStopSetEvent(c) \/ SimStopCheckThread(c) \/ SimStopJoin(c)
    \/ SimStopJoined(c) \/ SimStopClearMoving(c)

ShutdownStep(c) ==
    \/ ShutdownSignal(c) \/ ShutdownCheckThread(c) \/ ShutdownJoin(c)
    \/ ShutdownJoined(c) \/ ShutdownDisconnect(c) \/ SimDisconnectFlag(c)

InitializeStep(c) ==
    \/ InitializeConnect(c) \/ InitializeClearEvent(c) \/ InitializeNewThread(c)
    \/ InitializeStartThread(c) \/ InitializeSetIdle(c) \/ InitializeError(c)

CalibrateStep(c) ==
    \/ CalibrateSetState(c) \/ CalibrateWait(c) \/ CalibrateSetIdle(c)

GetStatusStep(c) ==
    \/ GetStatusRead(c) \/ GetStatusTarget(c) \/ GetStatusIsMoving(c)
    \/ GetStatusIsMovingRead(c)

MonitorStep(m) ==
    \/ MonitorLoop(m) \/ MonitorGetPosition(m) \/ MonitorGetPositionRead(m)
    \/ MonitorSetPosition(m) \/ MonitorReadState(m) \/ MonitorIsMoving(m)
    \/ MonitorIsMovingRead(m) \/ MonitorSetIdle(m) \/ MonitorError(m)

MotionStep(t) ==
    \/ MotionFlag(t) \/ MotionLoop(t) \/ MotionAzimuth(t)
    \/ MotionElevation(t) \/ MotionEnd(t)

Monitors == \E m \in DOMAIN monitor : MonitorStep(m)

Motions == \E t \in DOMAIN motion : MotionStep(t)

Next ==
    \/ \E c \in Callers :
          \/ Call(c) \/ Return(c)
          \/ InitializeStep(c) \/ ShutdownStep(c) \/ MoveToStep(c)
          \/ StopStep(c) \/ CalibrateStep(c) \/ GetStatusStep(c)
    \/ Monitors
    \/ Motions

\* the controller used by one caller thread
Spec == Init /\ [][Next]_vars

\* a thread that calls initialize() and move_to(), and a second thread that
\* calls stop()
NextStopper ==
    \/ \E c \in Callers :
          \/ Call(c) \/ Return(c)
          \/ InitializeStep(c) \/ MoveToStep(c) \/ StopStep(c)
    \/ Monitors
    \/ Motions

SpecStopper == InitStopper /\ [][NextStopper]_vars

\* the threads run: the scheduler gives every monitoring and motion thread
\* that can take a step its turn (each initialize() and each move_to creates
\* at most one thread)
FairSpec ==
    /\ Spec
    /\ \A m \in 1..MaxCalls : WF_vars(m \in DOMAIN monitor /\ MonitorStep(m))
    /\ \A t \in 1..MaxCalls : WF_vars(t \in DOMAIN motion /\ MotionStep(t))

\* ------------------------------------------------------------------ claims
OutsideLimits(p) ==
    \/ p.azimuth < limits.min_azimuth \/ p.azimuth > limits.max_azimuth
    \/ p.elevation < limits.min_elevation \/ p.elevation > limits.max_elevation

\* caller c takes a step
Steps(c) == caller'[c] # caller[c]

\* C1: move_to(p) with p outside the AntennaLimits, in a state other than
\* Error, raises SafetyError, enters no method of the driver and writes
\* neither state nor target_position, up to its return.
C1_OutOfLimitsRejected ==
    [][\A c \in Callers :
        /\ (caller[c].pc = "mv_check" /\ Steps(c)
                /\ state # "error" /\ OutsideLimits(caller[c].arg))
            => /\ caller'[c].pc = "ret"
               /\ caller'[c].outcome = "SafetyError"
               /\ caller'[c].calls = <<>>
               /\ UNCHANGED <<state, target_position, drvVars>>
        /\ (caller[c].pc = "ret" /\ Steps(c) /\ caller[c].outcome = "SafetyError")
            => /\ caller[c].calls = <<>>
               /\ UNCHANGED <<state, target_position, drvVars>>]_vars

C1_Witness ==
    \E c \in Callers :
        /\ caller[c].pc = "ret" /\ caller[c].op = "move_to"
        /\ OutsideLimits(caller[c].arg)
        /\ caller[c].entry # "error" /\ state # "error"
        /\ caller[c].outcome = "SafetyError" /\ caller[c].calls = <<>>

\* C2: move_to(p) in state Error raises AntennaError for every p (also one
\* outside the limits), enters no method of the driver and writes neither
\* state nor target_position, up to its return.
C2_RejectedInError ==
    [][\A c \in Callers :
        /\ (caller[c].pc = "mv_check" /\ Steps(c) /\ state = "error")
            => /\ caller'[c].pc = "ret"
               /\ caller'[c].outcome = "AntennaError"
               /\ caller'[c].calls = <<>>
               /\ UNCHANGED <<state, target_position, drvVars>>
        /\ (caller[c].pc = "ret" /\ Steps(c) /\ caller[c].op = "move_to"
                /\ caller[c].outcome = "AntennaError")
            => /\ caller[c].calls = <<>>
               /\ UNCHANGED <<state, target_position, drvVars>>]_vars

C2_Witness ==
    \E c \in Callers :
        /\ caller[c].pc = "ret" /\ caller[c].op = "move_to"
        /\ caller[c].entry = "error" /\ state = "error"
        /\ caller[c].outcome = "AntennaError" /\ caller[c].calls = <<>>
        /\ target_position # NoPosition

\* C3: calibrate() called in state Error is rejected: the only step it takes
\* is to raise AntennaError, with the state left Error and no method of the
\* driver entered.
C3_CalibrateRejectedInError ==
    [][\A c \in Callers :
        (caller[c].op = "calibrate" /\ caller[c].entry = "error"
            /\ caller[c].pc # "ret" /\ Steps(c))
        => /\ caller'[c].pc = "ret"
           /\ caller'[c].outcome = "AntennaError"
           /\ caller'[c].calls = <<>>
           /\ state' = "error"]_vars

\* C4: the state leaves Error only by a step of stop() (also the one
\* shutdown() calls) or of initialize().
C4_ErrorUntilStopOrInitialize ==
    [][(state = "error" /\ state' # "error")
        => \E c \in Callers :
              Steps(c) /\ caller[c].op \in {"stop", "shutdown", "initialize"}]_vars

\* C5: when move_to(p) returns without raising, the state is Moving and
\* target_position is p.
C5_MoveToReturnsMoving ==
    \A c \in Callers :
        (caller[c].pc = "ret" /\ caller[c].op = "move_to" /\ caller[c].outcome = "ok")
        => (state = "moving" /\ target_position = caller[c].arg)

\* no caller is inside an operation
CallersIdle == \A c \in Callers : caller[c].pc = "idle"

\* a monitoring loop is running and not told to stop
MonitoringRuns ==
    /\ ~stop_monitoring
    /\ \E m \in DOMAIN monitor : monitor[m].pc \notin {"new", "dead"}

\* the simulator reports no motion, and none is under way
SimulatorAtRest ==
    /\ driverKind = "sim" /\ ~moving
    /\ \A t \in DOMAIN motion : motion[t].pc = "dead"

\* C6: with the state Moving, the monitoring loop running and the simulator's
\* is_moving() false, the state becomes Idle, unless a caller's operation
\* intervenes.
C6_IdleAfterMotion ==
    (state = "moving" /\ CallersIdle /\ MonitoringRuns /\ SimulatorAtRest)
        ~> (state = "idle" \/ ~CallersIdle)

C6_Witness ==
    /\ state = "moving" /\ CallersIdle /\ MonitoringRuns /\ SimulatorAtRest
    /\ target_position = TargetA
    /\ current_azimuth = target_azimuth /\ current_elevation = target_elevation
    /\ target_azimuth > 0

\* C7: a stop() called while the state is Moving enters the driver's stop
\* once and, when the driver does not raise, returns with the state Stopped
\* and target_position None.
C7_StopReturnsStopped ==
    \A c \in Callers :
        (caller[c].pc = "ret" /\ caller[c].op = "stop" /\ caller[c].entry = "moving")
        => /\ caller[c].calls = <<"stop">>
           /\ caller[c].outcome = "ok"
                => (state = "stopped" /\ target_position = NoPosition)

\* C8: a stop() that waits for the simulator's motion thread has its halt in
\* force: the stop signal is set (the motion ends at its next tick), so that
\* stop() does not wait for the motion to reach its target.
C8_StopDoesNotWaitForTarget ==
    \A c \in Callers :
        (caller[c].op = "stop" /\ caller[c].pc = "ds_wait")
        => (stop_event \/ motion[caller[c].jt].pc \in {"mt_end", "dead"})

\* C9: when the driver raises in move_to (PositionError) or in stop()
\* (AntennaError), the state is Error when the call returns.
C9_DriverFailureLeavesError ==
    \A c \in Callers :
        (/\ caller[c].pc = "ret"
         /\ \/ caller[c].op = "move_to" /\ caller[c].outcome = "PositionError"
            \/ caller[c].op = "stop" /\ caller[c].outcome = "AntennaError")
        => state = "error"

\* shutdown() has entered the driver's disconnect(), or the driver is
\* disconnected
DisconnectBegun ==
    \/ ~connected
    \/ \E c \in Callers :
          caller[c].op = "shutdown" /\ caller[c].calls = <<"stop", "disconnect">>

\* C10: shutdown() stops the driver, signals the monitoring loop, waits for
\* the thread to end and then disconnects: no monitoring loop calls
\* get_position or is_moving once disconnect has begun.
C10_NoPollAfterDisconnect ==
    [][\A m \in DOMAIN monitor :
        (monitor[m].pc \in {"mo_get", "mo_moving"} /\ monitor'[m] # monitor[m])
        => ~DisconnectBegun]_vars

\* the threads that have written a Modbus frame and not yet read its response
InExchange ==
    {<<"caller", c>> : c \in {x \in Callers : caller[x].pc \in {"st_rd", "gs_rd"}}}
    \cup {<<"monitor", m>> : m \in {x \in DOMAIN monitor :
                                    monitor[x].pc \in {"mo_get_rd", "mo_moving_rd"}}}

\* C11: no two exchanges of the Modbus driver overlap: at most one thread is
\* between the write of its frame and the read of its response.
C11_ExchangesExclusive ==
    driverKind = "modbus" => Cardinality(InExchange) <= 1

\* the motion threads that are started and have not ended
AliveMotions == {t \in DOMAIN motion : ThreadAlive(motion, t)}

\* C12: on the simulator at most one motion thread is alive at every moment,
\* also while stop() runs concurrently with move_to: a thread that
\* move_to_position creates finds every earlier motion thread ended.
C12_OneMotionTask ==
    /\ Cardinality(AliveMotions) <= 1
    /\ \A c \in Callers :
          caller[c].pc \in {"dm_clear", "dm_new", "dm_start"} => AliveMotions = {}

\* a second move_to has replaced the motion thread of the first while a
\* stop() is under way in another thread
C12_Witness ==
    /\ driverKind = "sim"
    /\ Len(motion) = 2 /\ motion[1].pc = "dead" /\ ThreadAlive(motion, 2)
    /\ current_azimuth # target_azimuth
    /\ \E c \in Callers :
          caller[c].op = "stop" /\ caller[c].pc \in {"ds_set", "ds_chk", "ds_join", "ds_wait"}

\* C13: every change of the state from Moving to Idle is the write of a
\* monitoring loop that saw is_moving() false; no step of a caller's
\* operation changes Moving to Idle.
C13_OnlyMonitorEndsMoving ==
    [][(state = "moving" /\ state' = "idle")
        => /\ \E m \in DOMAIN monitor :
                monitor[m].pc = "mo_idle" /\ monitor'[m].pc = "mo_loop"
           /\ caller' = caller]_vars

\* C14: current_position is written by the monitoring loop only: a step that
\* changes it is the loop's assignment of the Position it has polled, and no
\* step of a caller's operation.
C14_OnlyMonitorWritesPosition ==
    [][current_position' # current_position
        => /\ caller' = caller
           /\ \E m \in DOMAIN monitor :
                /\ monitor[m].pc = "mo_set" /\ monitor'[m].pc = "mo_state"
                /\ current_position' = Pos(monitor[m].az, monitor[m].el)]_vars

\* the monitoring loop has written a position it polled, and a caller's
\* operation is under way
C14_Witness ==
    /\ current_position # HomePosition
    /\ current_position # TargetA /\ current_position # TargetB
    /\ \E c \in Callers :
          caller[c].op \in {"stop", "calibrate", "shutdown", "initialize", "get_status"}
          /\ caller[c].pc \notin {"idle", "ret"}

\* caller c is in the first call made on the controller since construction
FirstCall(c) ==
    /\ budget[c] = MaxCalls - 1
    /\ \A d \in Callers \ {c} : budget[d] = 0 /\ caller[d].pc = "idle"

\* C15: initialize() on a freshly constructed controller ends in one of two
\* ways: the driver is connected, the monitoring thread is started and the
\* state is written Idle; or connecting failed, the state is written Error,
\* no monitoring thread exists and AntennaError is raised.
C15_InitializeFresh ==
    [][\A c \in Callers :
        (caller[c].op = "initialize" /\ FirstCall(c)
            /\ caller[c].pc # "ret" /\ caller'[c].pc = "ret")
        => \/ /\ caller'[c].outcome = "ok"
              /\ caller[c].calls = <<"connect">> /\ connected
              /\ ThreadAlive(monitor, monitoring_thread) /\ Len(monitor) = 1
              /\ ~stop_monitoring
              /\ state' = "idle"
           \/ /\ caller'[c].outcome = "AntennaError"
              /\ caller[c].calls = <<"connect">> /\ ~connected
              /\ monitor = <<>> /\ monitoring_thread = 0
              /\ state' = "error"]_vars

C15_Witness ==
    \E c \in Callers :
        /\ caller[c].op = "initialize" /\ FirstCall(c) /\ caller[c].pc = "ret"
        /\ caller[c].outcome = "ok" /\ connected /\ state = "idle"
        /\ ThreadAlive(monitor, monitoring_thread)
        /\ current_position = HomePosition /\ target_position = NoPosition

\* C16: a monitoring loop whose poll raised writes the state Error and goes
\* back to the top of its loop; it ends only there, and only with the stop
\* signal set, and else polls again: after a failed poll the thread polls
\* again or has been told to end.
C16_MonitorSurvivesFailure ==
    /\ [][\A m \in DOMAIN monitor :
            /\ (monitor[m].pc = "mo_err" /\ monitor'[m] # monitor[m])
                => (state' = "error" /\ monitor'[m].pc = "mo_loop")
            /\ (monitor[m].pc # "dead" /\ monitor'[m].pc = "dead")
                => (monitor[m].pc = "mo_loop" /\ stop_monitoring)
            /\ (monitor[m].pc = "mo_loop" /\ monitor'[m] # monitor[m] /\ ~stop_monitoring)
                => monitor'[m].pc = "mo_get"]_vars
    /\ \A m \in 1..MaxCalls :
          (m \in DOMAIN monitor /\ monitor[m].pc = "mo_err")
            ~> (m \in DOMAIN monitor /\ monitor[m].pc \in {"mo_get", "dead"})

\* after an initialize() that succeeded, and no other call, the state is Error
\* and the monitoring loop is about to poll again
C16_Witness ==
    /\ state = "error" /\ ~stop_monitoring
    /\ budget["A"] = MaxCalls - 1 /\ caller["A"].pc = "idle"
    /\ \E m \in DOMAIN monitor : monitor[m].pc = "mo_get"

\* monitoring thread m handles a poll whose Modbus exchange failed: the port
\* is open, and no position was computed (Position(...) did not raise)
ExchangeFailed(m) ==
    /\ driverKind = "modbus" /\ connected
    /\ monitor[m] = Thread("mo_err")

\* C17: the monitoring loop's handling of a single failed poll leaves the
\* controller state as it was before the failure.
C17_FailedPollKeepsState ==
    [][\A m \in DOMAIN monitor :
        (ExchangeFailed(m) /\ monitor'[m] # monitor[m]) => state' = state]_vars

\* C18: a calibrate() called in state Idle or Stopped that returns has
\* commanded the driver to steps (0, 0), returns with the state Idle, and
\* returns only when that motion is complete: the simulator stands at (0, 0).
C18_CalibrateWaitsForHome ==
    \A c \in Callers :
        (/\ caller[c].pc = "ret" /\ caller[c].op = "calibrate"
         /\ caller[c].entry \in {"idle", "stopped"}
         /\ caller[c].outcome = "ok")
        => /\ state = "idle"
           /\ caller[c].calls = <<"move_to_position">>
           /\ target_azimuth = 0 /\ target_elevation = 0
           /\ current_azimuth = 0 /\ current_elevation = 0

\* C19: on the simulator, once move_to has returned from move_to_position(a, e)
\* and before any stop() or later move, is_moving() false implies that
\* get_position() is (a, e).
C19_NotMovingMeansAtTarget ==
    \A c \in Callers :
        (/\ driverKind = "sim"
         /\ caller[c].pc = "ret" /\ caller[c].op = "move_to"
         /\ caller[c].outcome = "ok"
         /\ \A d \in Callers \ {c} : caller[d].pc = "idle"
         /\ ~moving)
        => /\ current_azimuth = DegreesToSteps(caller[c].arg.azimuth, gear_ratio_azimuth)
           /\ current_elevation = DegreesToSteps(caller[c].arg.elevation, gear_ratio_elevation)

\* a write that takes an axis from cur to new, with the target at tgt, goes
\* towards the target by min(max_step, |tgt - cur|) and does not pass it
TowardsTarget(cur, new, tgt) ==
    /\ Abs(new - cur) = Min(MaxStep, Abs(tgt - cur))
    /\ (tgt - cur) * (tgt - new) >= 0
    /\ Abs(tgt - new) <= Abs(tgt - cur)

\* C20: every write of the simulator's motion thread to an axis moves it by
\* min(max_step, |target - current|) towards its target, so that the axis does
\* not pass the target and its distance to the target does not increase; the
\* thread leaves its loop only with both axes at the target or with the stop
\* signal set.
C20_TickTowardsTarget ==
    [][/\ current_azimuth' # current_azimuth
            => TowardsTarget(current_azimuth, current_azimuth', target_azimuth)
       /\ current_elevation' # current_elevation
            => TowardsTarget(current_elevation, current_elevation', target_elevation)
       /\ \A t \in DOMAIN motion :
            (motion[t].pc # "mt_end" /\ motion'[t].pc = "mt_end")
            => \/ stop_event
               \/ current_azimuth = target_azimuth /\ current_elevation = target_elevation]_vars

\* C30: once stop() has returned, with no caller inside an operation, the
\* monitoring loop does not change the state from Stopped to Idle.
C30_StoppedStaysStopped ==
    [][(state = "stopped" /\ CallersIdle /\ state' = "idle") => monitor' = monitor]_vars

\* ------------------------------------------- ModbusMotorDriver: the frames
\* The operations of ModbusMotorDriver, each applied once to a driver whose
\* serial port answers with the bytes of input.rx.

slave_id == 1
CrcInit == 65535
CrcPolynomial == 40961
MinResponseLength == 5

MaxRaw == 5

\* bitwise exclusive or of two naturals (^)
RECURSIVE Xor(_, _)
Xor(a, b) ==
    IF a = 0 THEN b
    ELSE IF b = 0 THEN a
    ELSE (((a % 2) + (b % 2)) % 2) + 2 * Xor(a \div 2, b \div 2)

\* a shift that forgets the polynomial
CrcShiftOnly(crc) == crc \div 2

\* if crc & 1: crc = (crc >> 1) ^ 0xA001  else: crc >>= 1
CrcShift(crc) ==
    IF crc % 2 = 1 THEN Xor(crc \div 2, CrcPolynomial) ELSE crc \div 2

\* for _ in range(8): ...
RECURSIVE CrcRounds(_, _)
CrcRounds(crc, n) == IF n = 0 THEN crc ELSE CrcRounds(CrcShift(crc), n - 1)

\* for byte in data: crc ^= byte; ...  (crc stays within 16 bits)
CrcFrom[crc \in 0..CrcInit, data \in Seq(0..255)] ==
    IF data = <<>> THEN crc
    ELSE CrcFrom[CrcRounds(Xor(crc, Head(data)), 8), Tail(data)]

\* ModbusMotorDriver._calculate_crc
calculate_crc(data) == CrcFrom[CrcInit, data]

\* struct.pack('<H', v), struct.pack('>H', v) and their unpack
PackLittleEndian(v) == <<v % 256, v \div 256>>
PackBigEndian(v) == <<v \div 256, v % 256>>
UnpackLittleEndian(b) == b[1] + 256 * b[2]
UnpackBigEndian(b) == 256 * b[1] + b[2]

\* frame = struct.pack('BB', slave_id, function_code) + data; frame +=
\* struct.pack('<H', crc)
Frame(function_code, data) ==
    LET head == <<slave_id, function_code>> \o data
    IN head \o PackLittleEndian(calculate_crc(head))

\* how an application ends: the exception raised or the value returned, the
\* frames written to the port and the number of reads from it
Raised(exc, frames, nreads) ==
    [raised |-> exc, written |-> frames, reads |-> nreads, value |-> <<>>]
Returned(v, frames, nreads) ==
    [raised |-> "none", written |-> frames, reads |-> nreads, value |-> v]

\* a length test that lets a response of four bytes through
ResponseTooShortBelow4(response) == Len(response) < MinResponseLength - 1

\* if len(response) < 5
ResponseTooShort(response) == Len(response) < MinResponseLength

\* received_crc != calculated_crc
CrcMismatch(response) ==
    LET n == Len(response)
    IN UnpackLittleEndian(SubSeq(response, n - 1, n))
            # calculate_crc(SubSeq(response, 1, n - 2))

\* ModbusMotorDriver._send_command
send_command(function_code, data) ==
    LET frame == Frame(function_code, data)
        response == input.rx
    IN IF ~connected THEN Raised("CommunicationError", <<>>, 0)
       ELSE IF input.port = "write_fails"
            THEN Raised("CommunicationError", <<>>, 0)
       ELSE IF input.port = "read_fails"
            THEN Raised("CommunicationError", <<frame>>, 0)
       ELSE IF ResponseTooShort(response)
            THEN Raised("CommunicationError", <<frame>>, 1)
       ELSE IF CrcMismatch(response)
            THEN Raised("CommunicationError", <<frame>>, 1)
       ELSE Returned(SubSeq(response, 1, Len(response) - 2), <<frame>>, 1)

\* ModbusMotorDriver.move_to_position: struct.pack('>HHHH', ...) is given
\* five values and raises struct.error
ModbusMoveToPositionResult(azimuth_steps, elevation_steps) ==
    IF ~StructPackOk(4, 5) THEN Raised("struct.error", <<>>, 0)
    ELSE send_command(16, PackBigEndian(4096) \o PackBigEndian(2)
                            \o PackBigEndian(4) \o PackBigEndian(azimuth_steps))

\* ModbusMotorDriver.get_position
ModbusGetPositionResult ==
    LET r == send_command(3, PackBigEndian(8192) \o PackBigEndian(2))
    IN IF r.raised # "none" THEN r
       ELSE IF Len(r.value) >= 7
            THEN [r EXCEPT !.value = <<UnpackBigEndian(SubSeq(r.value, 4, 5)),
                                       UnpackBigEndian(SubSeq(r.value, 6, 7))>>]
       ELSE [r EXCEPT !.raised = "CommunicationError", !.value = <<>>]

\* ModbusMotorDriver.stop
ModbusStopResult ==
    LET r == send_command(6, PackBigEndian(12288) \o PackBigEndian(1))
    IN [r EXCEPT !.value = <<>>]

\* ModbusMotorDriver.is_moving
ModbusIsMovingResult ==
    LET r == send_command(1, PackBigEndian(16384) \o PackBigEndian(1))
    IN IF r.raised # "none" THEN r
       ELSE IF Len(r.value) >= 4 THEN [r EXCEPT !.value = (r.value[4] % 2 = 1)]
       ELSE [r EXCEPT !.value = FALSE]

\* the bytes the port may return to read(64): any short sequence over a few
\* byte values, and the replies of a device with a correct checksum, with
\* the checksum's bytes swapped, with one bit of it flipped, or without it
RawBytes == {0, 1, 255}
RECURSIVE RawUpTo(_)
RawUpTo(n) ==
    IF n = 0 THEN {<<>>}
    ELSE LET shorter == RawUpTo(n - 1)
         IN shorter \cup {Append(r, b) : r \in shorter, b \in RawBytes}
RawResponses == RawUpTo(MaxRaw)
ReplyBodies ==
    {<<slave_id, 3, 4>> \o PackBigEndian(p[1]) \o PackBigEndian(p[2]) : p \in ModbusPositions}
    \cup {<<slave_id, 1, 1, s>> : s \in {0, 1, 2, 255}}
    \cup {<<slave_id, 6>> \o PackBigEndian(12288) \o PackBigEndian(1),
          <<slave_id, 16>> \o PackBigEndian(4096) \o PackBigEndian(2),
          <<slave_id, 131, 2>>, <<slave_id, 3>>, <<slave_id>>}
Replies ==
    UNION {{body \o PackLittleEndian(calculate_crc(body)),
            body \o PackBigEndian(calculate_crc(body)),
            body \o PackLittleEndian(Xor(calculate_crc(body), 1)),
            body} : body \in ReplyBodies}
Responses == RawResponses \cup Replies

\* the port works and answers, or one of its operations raises
\* serial.SerialException
CodecInputs ==
    {[rx |-> r, port |-> "ok"] : r \in Responses}
    \cup {[rx |-> <<>>, port |-> p] : p \in {"open_fails", "write_fails", "read_fails"}}

\* the arguments move_to_position is applied to, in steps
CodecSteps == <<150, 50>>

InitCodec ==
    /\ Constructed
    /\ driverKind = "modbus"
    /\ limits = DefaultLimits
    /\ budget = [c \in Callers |-> 0]
    /\ menu = [c \in Callers |-> <<>>]
    /\ input \in CodecInputs
    /\ output = NoOutput

\* an operation of the driver is applied, once
Applied(name, result) ==
    /\ driverKind = "modbus"
    /\ output = NoOutput
    /\ output' = [op |-> name, result |-> result]
    /\ UNCHANGED <<ctrlVars, drvVars, caller, budget, menu, input, monitor, motion>>

\* ModbusMotorDriver.connect
ModbusConnect ==
    /\ driverKind = "modbus"
    /\ ~connected
    /\ output = NoOutput
    /\ IF input.port = "open_fails"
       THEN /\ output' = [op |-> "connect", result |-> Raised("CommunicationError", <<>>, 0)]
            /\ UNCHANGED connected
       ELSE /\ connected' = TRUE
            /\ UNCHANGED output
    /\ UNCHANGED <<ctrlVars, driverKind, simVars, caller, budget, menu, input, monitor, motion>>

ModbusSendCommand == Applied("_send_command", send_command(3, PackBigEndian(8192) \o PackBigEndian(2)))
ModbusMoveToPosition == Applied("move_to_position", ModbusMoveToPositionResult(CodecSteps[1], CodecSteps[2]))
ModbusGetPosition == Applied("get_position", ModbusGetPositionResult)
ModbusStop == Applied("stop", ModbusStopResult)
ModbusIsMoving == Applied("is_moving", ModbusIsMovingResult)
ModbusCalculateCrc == Applied("_calculate_crc", Returned(calculate_crc(input.rx), <<>>, 0))

NextCodec ==
    \/ ModbusConnect
    \/ ModbusSendCommand
    \/ ModbusMoveToPosition
    \/ ModbusGetPosition
    \/ ModbusStop
    \/ ModbusIsMoving
    \/ ModbusCalculateCrc

SpecCodec == InitCodec /\ [][NextCodec]_vars

\* the response the port returned is one _send_command accepts
WellFormed(response) == Len(response) >= MinResponseLength /\ ~CrcMismatch(response)

\* the function code the text gives for each operation
FunctionCode(name) ==
    CASE name = "move_to_position" -> 16
      [] name = "get_position" -> 3
      [] name = "stop" -> 6
      [] name = "is_moving" -> 1

DriverOperations == {"move_to_position", "get_position", "stop", "is_moving"}

\* C21: on a connected driver whose port answers with a well-formed response,
\* each of move_to_position, get_position, stop and is_moving writes exactly
\* one frame, carrying its function code (0x10, 0x03, 0x06, 0x01), and reads
\* exactly once.
C21_OneExchangePerOperation ==
    (/\ output.op \in DriverOperations
     /\ connected /\ input.port = "ok" /\ WellFormed(input.rx))
    => /\ Len(output.result.written) = 1
       /\ output.result.reads = 1
       /\ output.result.written[1][2] = FunctionCode(output.op)

\* C22: whatever an operation of the driver raises, it is CommunicationError:
\* no operation raises an exception of another type.
C22_OnlyCommunicationError ==
    output.op # "none" => output.result.raised \in {"none", "CommunicationError"}

\* C23: on a connected driver whose port answers, _send_command raises
\* CommunicationError for every response shorter than 5 bytes and for every
\* response whose last two bytes, little-endian, differ from the CRC of the
\* bytes before them; every other response it returns without its last two
\* bytes.
C23_SendCommandChecksResponse ==
    (output.op = "_send_command" /\ connected /\ input.port = "ok")
    => LET response == input.rx
           n == Len(response)
       IN IF n < 5 \/ response[n - 1] + 256 * response[n]
                        # calculate_crc(SubSeq(response, 1, n - 2))
          THEN output.result.raised = "CommunicationError"
          ELSE /\ output.result.raised = "none"
               /\ output.result.value = SubSeq(response, 1, n - 2)

\* _send_command has returned a response of a position, without its checksum
C23_Witness ==
    /\ output.op = "_send_command"
    /\ output.result.raised = "none"
    /\ Len(input.rx) = 9
    /\ output.result.value = SubSeq(input.rx, 1, 7)

\* data with bit b of its i-th byte flipped
FlipBit(data, i, b) == [data EXCEPT ![i] = Xor(@, 2 ^ b)]

\* the bytes of "123456789", whose CRC-16/Modbus is 0x4B37
CheckString == <<49, 50, 51, 52, 53, 54, 55, 56, 57>>

\* C24: _calculate_crc returns a value in 0..0xFFFF, and for every byte
\* sequence flipping any single bit of it changes the CRC (the CRC of a frame
\* with its own CRC appended, low byte first, is then 0, as in CRC-16/Modbus).
C24_CrcDetectsSingleBitFlip ==
    output.op = "_calculate_crc"
    => /\ output.result.value \in 0..65535
       /\ \A i \in 1..Len(input.rx), b \in 0..7 :
            calculate_crc(FlipBit(input.rx, i, b)) # output.result.value
       /\ calculate_crc(input.rx \o PackLittleEndian(output.result.value)) = 0

\* the CRC of a response of a position has been computed
C24_Witness ==
    /\ output.op = "_calculate_crc"
    /\ Len(input.rx) = 9
    /\ output.result.value > 255

\* ------------------------------------- degrees and steps: the conversions
\* Position(azimuth, elevation) is constructed, move_to converts it to steps,
\* and the monitoring loop converts the steps back, each applied once.

\* the angles a Position is constructed from, in units of 1/DegScale degree:
\* whole and fractional numbers of steps, the scenario's 45 and 30 degrees,
\* the ends of the envelope, and angles one step outside it
ConvertAzimuths ==
    {0, 50, 4536, 7200, 10854, 45 * DegScale, PositionMaxAzimuth * DegScale}
    \cup {-72, PositionMaxAzimuth * DegScale + 72}
ConvertElevations ==
    {0, 50, 90, 4500, 9000, 30 * DegScale, PositionMaxElevation * DegScale}
    \cup {-90, PositionMaxElevation * DegScale + 90}
ConvertInputs == {Pos(a, e) : a \in ConvertAzimuths, e \in ConvertElevations}

InitConvert ==
    /\ Constructed
    /\ driverKind = "sim"
    /\ budget = [c \in Callers |-> 0]
    /\ menu = [c \in Callers |-> <<>>]
    /\ input \in ConvertInputs
    /\ output = NoOutput

\* Position(azimuth, elevation): __post_init__ raises ValueError outside the
\* envelope
NewPosition ==
    /\ output = NoOutput
    /\ "rx" \notin DOMAIN input
    /\ output' = [op |-> "Position",
                  result |-> IF PositionValid(input.azimuth, input.elevation)
                             THEN Returned(input, <<>>, 0)
                             ELSE Raised("ValueError", <<>>, 0)]
    /\ UNCHANGED <<ctrlVars, drvVars, caller, budget, menu, input, monitor, motion>>

\* move_to, up to the step counts: self._validate_position(position);
\* az_steps = int(...); el_steps = int(...)
MoveToSteps ==
    /\ output.op = "Position"
    /\ output.result.raised = "none"
    /\ state # "error"
    /\ LET position == output.result.value
       IN output' = [op |-> "move_to",
                     result |-> IF ~ValidatePosition(position)
                                THEN Raised("SafetyError", <<>>, 0)
                                ELSE Returned(
                                    <<DegreesToSteps(position.azimuth, gear_ratio_azimuth),
                                      DegreesToSteps(position.elevation, gear_ratio_elevation)>>,
                                    <<>>, 0)]
    /\ UNCHANGED <<ctrlVars, drvVars, caller, budget, menu, input, monitor, motion>>

\* the monitoring loop's conversion of the position the driver reports, here
\* the steps it was given: azimuth = az_steps / steps_per_degree_azimuth, ...;
\* Position(azimuth, elevation)
MonitorDegrees ==
    /\ output.op = "move_to"
    /\ output.result.raised = "none"
    /\ LET p == MonitorPosition(output.result.value)
       IN output' = [op |-> "_monitor_position",
                     result |-> IF p.pc = "mo_set"
                                THEN Returned(Pos(p.az, p.el), <<>>, 0)
                                ELSE Raised("ValueError", <<>>, 0)]
    /\ UNCHANGED <<ctrlVars, drvVars, caller, budget, menu, input, monitor, motion>>

NextConvert ==
    \/ NewPosition
    \/ MoveToSteps
    \/ MonitorDegrees

SpecConvert == InitConvert /\ [][NextConvert]_vars

\* the integer nearest to degrees * steps_per_degree
RoundedSteps(deg, gear) ==
    LET num == StepsPerDegreeNum(gear)
        den == StepsPerDegreeDen * DegScale
        g == GCD(num, den)
    IN (2 * deg * (num \div g) + (den \div g)) \div (2 * (den \div g))

\* the angle of one step
StepAngle(gear) == StepsToDegrees(1, gear)

\* move_to has computed the step counts of the Position it was given
StepsComputed == output.op = "move_to" /\ output.result.raised = "none"

\* C25: for every Position within limits, the step count move_to passes to
\* the driver for each axis is the integer nearest to degrees times
\* steps_per_degree of that axis.
C25_StepsAreRounded ==
    StepsComputed
    => output.result.value = <<RoundedSteps(input.azimuth, gear_ratio_azimuth),
                               RoundedSteps(input.elevation, gear_ratio_elevation)>>

\* move_to(Position(45.0, 30.0)) has computed its step counts
C26_Scenario == StepsComputed /\ input = Pos(45 * DegScale, 30 * DegScale)

\* C26 (amended): move_to(Position(45.0, 30.0)) with the default MotorConfig
\* passes az_steps = 40000 and el_steps = 21333 to the driver.
C26_ScenarioSteps == C26_Scenario => output.result.value = <<40000, 21333>>

\* C26 as stated: move_to(Position(45.0, 30.0)) with the default MotorConfig
\* passes az_steps = 400000 and el_steps = 213333 to the driver.
C26_AsStated == C26_Scenario => output.result.value = <<400000, 213333>>

\* C27: for every azimuth in [0,360] and elevation in [0,90], converting to
\* steps as move_to does and back to degrees as the monitoring loop does gives
\* an angle that differs from the original by less than the angle of one step.
C27_RoundTripWithinOneStep ==
    output.op = "_monitor_position"
    => /\ output.result.raised = "none"
       /\ Abs(output.result.value.azimuth - input.azimuth) < StepAngle(gear_ratio_azimuth)
       /\ Abs(output.result.value.elevation - input.elevation) < StepAngle(gear_ratio_elevation)

\* C28: a Position outside azimuth [0,360] or elevation [0,90] cannot be
\* constructed, so current_position and target_position lie within these
\* bounds in every reachable state, and the monitoring loop never goes on to
\* store a driver position that converts to degrees outside them.
C28_PositionsWithinEnvelope ==
    /\ PositionValid(current_position.azimuth, current_position.elevation)
    /\ \/ target_position = NoPosition
       \/ PositionValid(target_position.azimuth, target_position.elevation)
    /\ \A m \in DOMAIN monitor :
         monitor[m].pc = "mo_set" => PositionValid(monitor[m].az, monitor[m].el)

\* the driver has reported a position outside the envelope, the construction
\* of the Position has raised, and current_position is as it was
C28_Witness ==
    \E m \in DOMAIN monitor :
        /\ monitor[m].pc = "mo_err"
        /\ ~PositionValid(monitor[m].az, monitor[m].el)
        /\ current_position = HomePosition

\* ---------------------------------------------------- PositionCalibration
\* The calibration offsets set through the API, applied to a Position and
\* reversed.  PositionCalibration is imported by api_server/main.py from
\* libs.Sterownik.antenna_controller; its operations are modelled from the
\* specification (4.4): apply adds the stored offsets and reverse subtracts
\* them, each returning a Position.

\* the Positions calibrated and the offsets of a CalibrationModel, in units
\* of 1/DegScale degree
CalibrationAzimuths == {0, 4536, 45 * DegScale, PositionMaxAzimuth * DegScale}
CalibrationElevations == {0, 90, 30 * DegScale, PositionMaxElevation * DegScale}
AzimuthOffsets == {-4536, 0, 72, 180 * DegScale, 359 * DegScale}
ElevationOffsets == {-90, 0, 90, 45 * DegScale}
CalibrationInputs ==
    {[azimuth |-> a, elevation |-> e, azimuth_offset |-> ao, elevation_offset |-> eo] :
        a \in CalibrationAzimuths, e \in CalibrationElevations,
        ao \in AzimuthOffsets, eo \in ElevationOffsets}

InitCalibration ==
    /\ Constructed
    /\ driverKind = "sim"
    /\ limits = DefaultLimits
    /\ budget = [c \in Callers |-> 0]
    /\ menu = [c \in Callers |-> <<>>]
    /\ input \in CalibrationInputs
    /\ output = NoOutput

\* Position(azimuth + azimuth_offset, elevation + elevation_offset)
Shifted(position, azimuth_offset, elevation_offset) ==
    LET azimuth == position.azimuth + azimuth_offset
        elevation == position.elevation + elevation_offset
    IN IF PositionValid(azimuth, elevation)
       THEN Returned(Pos(azimuth, elevation), <<>>, 0)
       ELSE Raised("ValueError", <<>>, 0)

\* apply(raw) adds the stored offsets; reverse(calibrated) subtracts them
apply(calibration, raw) ==
    Shifted(raw, calibration.azimuth_offset, calibration.elevation_offset)
reverse(calibration, calibrated) ==
    Shifted(calibrated, -calibration.azimuth_offset, -calibration.elevation_offset)

\* set_calibration: new_cal = PositionCalibration(azimuth_offset,
\* elevation_offset); controller.set_position_calibration(new_cal, ...)
SetCalibration ==
    /\ output = NoOutput
    /\ "azimuth_offset" \in DOMAIN input
    /\ output' = [op |-> "set_calibration",
                  calibration |-> [azimuth_offset |-> input.azimuth_offset,
                                   elevation_offset |-> input.elevation_offset],
                  result |-> Returned(<<>>, <<>>, 0)]
    /\ UNCHANGED <<ctrlVars, drvVars, caller, budget, menu, input, monitor, motion>>

\* the stored calibration is applied to Position(azimuth, elevation)
ApplyCalibration ==
    /\ output.op = "set_calibration"
    /\ output' = [output EXCEPT
                    !.op = "apply",
                    !.result = apply(output.calibration, Pos(input.azimuth, input.elevation))]
    /\ UNCHANGED <<ctrlVars, drvVars, caller, budget, menu, input, monitor, motion>>

\* the calibrated Position is taken back through reverse
ReverseCalibration ==
    /\ output.op = "apply"
    /\ output.result.raised = "none"
    /\ output' = [output EXCEPT
                    !.op = "reverse",
                    !.result = reverse(output.calibration, output.result.value)]
    /\ UNCHANGED <<ctrlVars, drvVars, caller, budget, menu, input, monitor, motion>>

NextCalibration ==
    \/ SetCalibration
    \/ ApplyCalibration
    \/ ReverseCalibration

SpecCalibration == InitCalibration /\ [][NextCalibration]_vars

\* the Position plus the offsets lies within azimuth [0,360], elevation [0,90]
CalibratedWithinEnvelope ==
    /\ 0 <= input.azimuth + input.azimuth_offset
    /\ input.azimuth + input.azimuth_offset <= 360 * DegScale
    /\ 0 <= input.elevation + input.elevation_offset
    /\ input.elevation + input.elevation_offset <= 90 * DegScale

C31_MovingWhileTaskMoves ==
    driverKind = "sim"
    => \A t \in DOMAIN motion : motion[t].pc \in {"mt_az", "mt_el"} => moving

\* the monitoring threads that were started and have not ended
AliveMonitors == {m \in DOMAIN monitor : ThreadAlive(monitor, m)}

\* C32: at any time at most one monitoring thread is running, whatever the
\* sequence of initialize() and shutdown() calls, initialize() on an
\* initialized controller included.
C32_OneMonitoringThread == Cardinality(AliveMonitors) <= 1

\* C33: when calibrate() has returned or raised, the state is not Calibrating,
\* for every AntennaLimits, those that exclude the home position included.
C33_CalibratingIsTransient ==
    \A c \in Callers :
        (caller[c].pc = "ret" /\ caller[c].op = "calibrate") => state # "calibrating"

MaxCalibrates == 1

\* a caller thread that calls initialize(), move_to() and calibrate(), and a
\* second thread that calls stop()
InitCalibrateStop ==
    /\ Constructed
    /\ input = NoInput
    /\ output = NoOutput
    /\ budget = [c \in Callers |->
                    IF c = "A" THEN MaxInits + MaxCalibrates + 1 ELSE MaxStops]
    /\ menu = [c \in Callers |->
                IF c = "A"
                THEN [call \in {CallOf("initialize", NoPosition), CallOf("move_to", TargetB),
                                CallOf("calibrate", NoPosition)} |->
                        CASE call.op = "initialize" -> MaxInits
                          [] call.op = "calibrate" -> MaxCalibrates
                          [] OTHER -> 1]
                ELSE [call \in {CallOf("stop", NoPosition)} |-> MaxStops]]

NextCalibrateStop ==
    \/ \E c \in Callers :
          \/ Call(c) \/ Return(c)
          \/ InitializeStep(c) \/ MoveToStep(c) \/ StopStep(c) \/ CalibrateStep(c)
    \/ Monitors
    \/ Motions

SpecCalibrateStop == InitCalibrateStop /\ [][NextCalibrateStop]_vars

\* C34: when calibrate() leaves its wait for the home motion with the state
\* Stopped (set by stop()) or Error (set by the monitoring loop), it does not
\* replace that state with Idle.
C34_CalibrateKeepsStoppedAndError ==
    [][\A c \in Callers :
        (caller[c].pc = "ca_idle" /\ caller'[c].pc # "ca_idle"
            /\ state \in {"stopped", "error"})
        => state' = state]_vars

\* C35: after shutdown() has returned or raised, also when the driver's stop
\* failed, no monitoring thread is running and the driver is disconnected.
C35_ShutdownAlwaysCompletes ==
    \A c \in Callers :
        (caller[c].pc = "ret" /\ caller[c].op = "shutdown")
        => AliveMonitors = {} /\ ~connected

\* ------------------------------------- the simulator at a constructed speed
\* SimulatedMotorDriver(simulation_speed): the speeds the driver is
\* constructed with, steps per second
Speeds == {5, 500, simulation_speed}

\* a controller whose simulator was constructed with one of the speeds, and a
\* caller thread that calls initialize() and move_to(); nothing calls stop()
InitSpeed ==
    /\ Constructed
    /\ input \in [simulation_speed : Speeds]
    /\ output = NoOutput
    /\ budget = [c \in Callers |-> IF c = "A" THEN MaxInits + MaxMoves ELSE 0]
    /\ menu = [c \in Callers |->
                IF c = "A"
                THEN [call \in {CallOf("initialize", NoPosition)}
                                \cup {CallOf("move_to", p) : p \in Targets} |->
                        IF call.op = "initialize" THEN MaxInits ELSE MaxMoves]
                ELSE <<>>]

NextSpeed ==
    \/ \E c \in Callers :
          \/ Call(c) \/ Return(c)
          \/ InitializeStep(c) \/ MoveToStep(c)
    \/ Monitors
    \/ Motions

SpecSpeed == InitSpeed /\ [][NextSpeed]_vars

\* the threads run: a caller inside a call goes on, and the scheduler gives
\* every monitoring and motion thread that can take a step its turn
FairSpecSpeed ==
    /\ SpecSpeed
    /\ \A c \in Callers :
          WF_vars(Return(c) \/ InitializeStep(c) \/ MoveToStep(c))
    /\ \A m \in 1..MaxInits : WF_vars(m \in DOMAIN monitor /\ MonitorStep(m))
    /\ \A t \in 1..MaxMoves : WF_vars(t \in DOMAIN motion /\ MotionStep(t))

\* C36: for every simulation speed above zero and every target, with no call
\* of stop(), a motion task started by move_to_position leads to the task
\* ended, the position equal to the target and is_moving() false.
C36_MotionTaskTerminatesAtTarget ==
    \A t \in 1..MaxMoves :
        (driverKind = "sim" /\ t \in DOMAIN motion /\ motion[t].pc = "mt_flag")
        ~> (/\ t \in DOMAIN motion /\ motion[t].pc = "dead"
            /\ current_azimuth = target_azimuth
            /\ current_elevation = target_elevation
            /\ ~moving)

\* C37: for every Position within the default AntennaLimits, with the default
\* MotorConfig, the step counts move_to computes lie in 0..65535, the range of
\* the unsigned 16-bit fields ('>H') of the Modbus move command and of the
\* get_position reply.
C37_StepsFitRegisters ==
    (StepsComputed /\ limits = DefaultLimits)
    => \A i \in 1..2 : output.result.value[i] \in 0..(2^16 - 1)

====
